---------------------------- MODULE Spec2Model ----------------------------
(***************************************************************************)
(* A model of the two tree-drawing scripts of BugTree:                     *)
(*   src/trees.py      the rectangular layout  (script = "rect")           *)
(*   src/circTrees.py  the polar layout        (script = "polar")          *)
(* Each script is a module that, when loaded, imports its libraries,       *)
(* defines drawMark and drawTree, and calls drawTree.  drawMark computes   *)
(* the clade -> x and clade -> y mappings, draws every clade recursively,  *)
(* sets the axes and passes its extra keyword arguments to pyplot.         *)
(*                                                                         *)
(* Python's None is the empty sequence <<>>, a value v that may be None is *)
(* <<v>>.  A dict is a function; a dict that has no key yet is <<>>.       *)
(* A module-level name that is not bound is the empty set, bound to v it   *)
(* is {v}.                                                                 *)
(*                                                                         *)
(* Outside the model: the contents of matplotlib's rc settings and the     *)
(* line widths, the figure file drawTree writes, drawMark's parameters     *)
(* axes, branch_labels, label_colors and show_confidence (the scripts      *)
(* leave them at their defaults), the shortening of names of more than 40  *)
(* characters by str(clade), and the rounding of floating-point numbers:   *)
(* positions are exact rationals.                                          *)
(***************************************************************************)
EXTENDS Integers, Sequences, FiniteSets, TLC

\* Largest number of clades of a tree read from a Newick file.
MaxNodes == 4

None == <<>>
Some(v) == <<v>>

\* Python's "v or 0" for a number that may be None.
OrZero(v) == IF v = None THEN 0 ELSE v[1]

\* Branch lengths a Newick file gives a clade (none, negative, positive).
Lengths == {None, Some(-1), Some(1)}

\* Labels a Newick file gives a leaf (none or a taxon name) and an internal
\* clade (none, a name or a number).
LeafLabels == {None, Some("a"), Some("b")}
InternalLabels == {None, Some("a"), Some("90")}

\* The number a numeric Newick label parses to; None for a label that is
\* no number.
ParseConfidence(label) == IF label = Some("90") THEN Some(90) ELSE None

\* The highlight sets a caller passes as mark.
Marks == {{}, {"a"}}

Range(s) == {s[i] : i \in 1..Len(s)}

Max(S) == CHOOSE m \in S : \A k \in S : k <= m

-----------------------------------------------------------------------------
(* The tree library (Bio.Phylo), as the scripts use it.  A tree is a       *)
(* record [n, clades, color, branch_length, name, confidence] over the     *)
(* clades 1..n; clade 1 is the root and clades[c] is the list of c's       *)
(* children.                                                               *)

root == 1

\* A Newick text is a record [n, parent, length, label]: the clades 1..n,
\* the parent of each clade but the root, each clade's branch length and
\* label.

\* The children of p in a Newick text, in the order they are written.
RECURSIVE ChildrenFrom(_, _, _)
ChildrenFrom(f, p, c) ==
    IF c > f.n THEN <<>>
    ELSE (IF f.parent[c] = p THEN <<c>> ELSE <<>>) \o ChildrenFrom(f, p, c + 1)

\* Phylo.read(file, "newick"): a numeric label of an internal clade is its
\* confidence, any other label is the clade's name.
PhyloRead(f) ==
    LET kids == [c \in 1..f.n |-> ChildrenFrom(f, c, 2)]
        isConf == [c \in 1..f.n |->
                     kids[c] # <<>> /\ ParseConfidence(f.label[c]) # None]
    IN  [n             |-> f.n,
         clades        |-> kids,
         color         |-> [c \in 1..f.n |-> None],
         branch_length |-> f.length,
         name          |-> [c \in 1..f.n |->
                              IF isConf[c] THEN None ELSE f.label[c]],
         confidence    |-> [c \in 1..f.n |->
                              IF isConf[c] THEN ParseConfidence(f.label[c])
                              ELSE None]]

is_terminal(t, c) == t.clades[c] = <<>>

\* tree.get_terminals(): the leaves in preorder, left to right.
RECURSIVE get_terminals_from(_, _), get_terminals_seq(_, _, _)
get_terminals_seq(t, kids, i) ==
    IF i > Len(kids) THEN <<>>
    ELSE get_terminals_from(t, kids[i]) \o get_terminals_seq(t, kids, i + 1)
get_terminals_from(t, c) ==
    IF is_terminal(t, c) THEN <<c>>
    ELSE get_terminals_seq(t, t.clades[c], 1)

get_terminals(t) == get_terminals_from(t, root)

count_terminals_from(t, c) == Len(get_terminals_from(t, c))

count_terminals(t) == Len(get_terminals(t))

\* The parent of a clade that is not the root.
ParentOf(t, c) == CHOOSE p \in 1..t.n : c \in Range(t.clades[p])

\* len(tree.get_path(c)): the clades on the path from the root to c, the
\* root left out and c included.
RECURSIVE get_path_len(_, _)
get_path_len(t, c) ==
    IF c = root THEN 0 ELSE 1 + get_path_len(t, ParentOf(t, c))

\* list.sort(key=...): a stable insertion sort, ascending by key.
RECURSIVE InsertByKey(_, _, _)
InsertByKey(s, c, key) ==
    IF s = <<>> THEN <<c>>
    ELSE IF key[c] < key[s[Len(s)]]
         THEN InsertByKey(SubSeq(s, 1, Len(s) - 1), c, key) \o <<s[Len(s)]>>
         ELSE s \o <<c>>

RECURSIVE SortByKey(_, _)
SortByKey(s, key) ==
    IF s = <<>> THEN <<>>
    ELSE InsertByKey(SortByKey(SubSeq(s, 1, Len(s) - 1), key), s[Len(s)], key)

\* tree.ladderize(): every clade's children sorted by their number of
\* leaves, fewest first.
ladderize(t) ==
    LET key == [c \in 1..t.n |-> count_terminals_from(t, c)]
    IN  [t EXCEPT !.clades = [c \in 1..t.n |-> SortByKey(t.clades[c], key)]]

\* The step taken backwards.
depth_of_backwards(t, c, unit_branch_lengths) ==
    IF unit_branch_lengths THEN 1 ELSE 0 - OrZero(t.branch_length[c])

\* unit_branch_lengths ignored.
depth_of_lengths(t, c, unit_branch_lengths) == OrZero(t.branch_length[c])

\* The step from a clade to its child in tree.depths().
depth_of(t, c, unit_branch_lengths) ==
    IF unit_branch_lengths THEN 1 ELSE OrZero(t.branch_length[c])

\* tree.depths(unit_branch_lengths): the dict clade -> depth, the root at
\* its own branch length (or 0) and every child at its parent's depth plus
\* its step.
RECURSIVE update_depths(_, _, _, _), update_depths_seq(_, _, _, _, _)
update_depths_seq(t, kids, i, curr_depth, unit) ==
    IF i > Len(kids) THEN <<>>
    ELSE update_depths(t, kids[i], curr_depth + depth_of(t, kids[i], unit), unit)
         @@ update_depths_seq(t, kids, i + 1, curr_depth, unit)
update_depths(t, node, curr_depth, unit) ==
    (node :> curr_depth) @@ update_depths_seq(t, t.clades[node], 1, curr_depth, unit)

depths(t, unit_branch_lengths) ==
    update_depths(t, root, OrZero(t.branch_length[root]), unit_branch_lengths)

\* The target of tree.common_ancestor given as a taxon name: the first
\* clade in preorder with that name, None when there is none.
RECURSIVE preorder_from(_, _), preorder_seq(_, _, _)
preorder_seq(t, kids, i) ==
    IF i > Len(kids) THEN <<>>
    ELSE preorder_from(t, kids[i]) \o preorder_seq(t, kids, i + 1)
preorder_from(t, c) == <<c>> \o preorder_seq(t, t.clades[c], 1)

find_by_name(t, target) ==
    LET order == preorder_from(t, root)
        hits  == {i \in 1..Len(order) : t.name[order[i]] = Some(target)}
    IN  IF hits = {} THEN None
        ELSE Some(order[CHOOSE i \in hits : \A j \in hits : i <= j])

\* c and its ancestors.
RECURSIVE AncestorsOrSelf(_, _)
AncestorsOrSelf(t, c) ==
    IF c = root THEN {root} ELSE {c} \cup AncestorsOrSelf(t, ParentOf(t, c))

\* The deepest clade on both paths; the root when a path is empty.
common_ancestor(t, a, b) ==
    LET common == AncestorsOrSelf(t, a) \cap AncestorsOrSelf(t, b)
    IN  IF a = root \/ b = root THEN root
        ELSE CHOOSE m \in common :
                 \A k \in common : get_path_len(t, k) <= get_path_len(t, m)

-----------------------------------------------------------------------------
(* Layout: drawMark.get_x_positions and drawMark.get_y_positions.          *)
(*                                                                         *)
(* A vertical position is a whole number of YDen-ths of the script's unit: *)
(* the unit is one row in the rectangular script and 1/N of a full turn    *)
(* (2*pi/N, N the number of leaves) in the polar script.  Halving is exact *)
(* for every tree of at most MaxNodes clades.                              *)

YDen == 2 ^ MaxNodes

\* The rows counted from 0 instead of from 1.
TipHeightFromZero(maxheight, i) == (maxheight - i - 1) * YDen

\* heights[tip] of the rectangular script: maxheight - i.
TipHeight(maxheight, i) == (maxheight - i) * YDen

\* i / count taken as a floor division.
TipAngleFloorDiv(count, i) == (count - count * (i \div count)) * YDen

\* heights[tip] of the polar script: maxheight * (1 - i / count), with
\* maxheight the full turn.
TipAngle(count, i) == (count - i) * YDen

\* The sum written without its parentheses.
MidpointUnparenthesised(a, b) == a + (b \div 2)

\* (a + b) / 2.0
Midpoint(a, b) == (a + b) \div 2

\* The position of clade c in the list s.
IndexOf(s, c) == CHOOSE k \in 1..Len(s) : s[k] = c

\* {tip: ... for i, tip in enumerate(reversed(tree.get_terminals()))}
TipHeights(t, scr) ==
    LET tips  == get_terminals(t)
        count == count_terminals(t)
    IN  [tip \in Range(tips) |->
            LET i == Len(tips) - IndexOf(tips, tip)
            IN  IF scr = "rect" THEN TipHeight(count, i) ELSE TipAngle(count, i)]

\* calc_row(clade): the rows of the children not yet placed, then the
\* clade's own row.
RECURSIVE calc_row(_, _, _), calc_row_seq(_, _, _, _)
calc_row_seq(t, kids, i, heights) ==
    IF i > Len(kids) THEN heights
    ELSE calc_row_seq(t, kids, i + 1,
                      IF kids[i] \notin DOMAIN heights
                      THEN calc_row(t, kids[i], heights)
                      ELSE heights)
calc_row(t, clade, heights) ==
    LET h    == calc_row_seq(t, t.clades[clade], 1, heights)
        kids == t.clades[clade]
    IN  (clade :> Midpoint(h[kids[1]], h[kids[Len(kids)]])) @@ h

\* The rows of the tips alone, calc_row never called.
get_y_positions_tips(t, scr) == TipHeights(t, scr)

get_y_positions(t, scr) ==
    LET heights == TipHeights(t, scr)
    IN  IF t.clades[root] # <<>> THEN calc_row(t, root, heights) ELSE heights

\* The largest len(tree.get_path(terminal)) of the polar script.
TreeDepth(t) ==
    Max({0} \cup {get_path_len(t, c) : c \in Range(get_terminals(t))})

\* The cladogram branch of the polar get_x_positions: unit depths, every
\* terminal moved out to treeDepth.
CladogramDepths(t) ==
    LET d == depths(t, TRUE)
    IN  [c \in DOMAIN d |-> IF is_terminal(t, c) THEN TreeDepth(t) ELSE d[c]]

\* not max(depths.values()) for depths = tree.depths().
NoBranchLengths(t) ==
    LET d == depths(t, FALSE) IN Max({d[c] : c \in DOMAIN d}) = 0

\* depths = tree.depths(); if not max(depths.values()): unit branch lengths.
BranchLengthDepths(t) ==
    IF NoBranchLengths(t) THEN depths(t, TRUE) ELSE depths(t, FALSE)

get_x_positions(t, scr, cladogram) ==
    IF scr = "polar" /\ cladogram THEN CladogramDepths(t)
    ELSE BranchLengthDepths(t)

-----------------------------------------------------------------------------
(* The scripts' inputs.                                                    *)

\* The two taxon names of the module-level list toMark.
toMark == <<"a", "b">>

\* The modules a script imports, and the installations it may run in: all
\* of them present, matplotlib missing, or matplotlib present with neither
\* matplotlib.pyplot nor pylab importable.
Installations ==
    {{"Bio", "numpy", "matplotlib", "matplotlib.pyplot", "pylab"},
     {"Bio", "numpy"},
     {"Bio", "numpy", "matplotlib"}}

\* Whether clade a is d or an ancestor of d under the parent function f.
RECURSIVE OnPathTo(_, _, _)
OnPathTo(f, a, d) == a = d \/ (d # root /\ OnPathTo(f, a, f[d]))

\* The parent functions of the trees of k clades, the clades numbered in
\* the order a Newick text opens them (preorder): the parent of c is c - 1
\* or an ancestor of c - 1.
Shapes(k) ==
    {f \in [2..k -> 1..k] : \A c \in 2..k : f[c] < c /\ OnPathTo(f, f[c], c - 1)}

IsLeafOf(k, parent, c) == \A d \in 2..k : parent[d] # c

\* The name "a" on the first leaf, "b" on every other leaf and no label on
\* an internal clade.
TaxonLabels(k, parent) ==
    LET first == CHOOSE c \in 1..k :
                     /\ IsLeafOf(k, parent, c)
                     /\ \A d \in 1..k : IsLeafOf(k, parent, d) => c <= d
    IN  [c \in 1..k |-> IF ~IsLeafOf(k, parent, c) THEN None
                        ELSE IF c = first THEN Some("a") ELSE Some("b")]

\* Every labelling of the clades.
Labellings(k, parent) ==
    {lb \in [1..k -> LeafLabels \cup InternalLabels] :
        \A c \in 1..k : lb[c] \in IF IsLeafOf(k, parent, c)
                                  THEN LeafLabels ELSE InternalLabels}

\* The Newick files the runs read: every shape of at most MaxNodes clades,
\* with every choice of branch lengths (the leaves named) or every choice
\* of labels (no branch lengths).
InputFiles ==
    UNION {UNION {
        {[n |-> k, parent |-> sh, length |-> ln, label |-> TaxonLabels(k, sh)] :
             ln \in [1..k -> Lengths]}
        \cup
        {[n |-> k, parent |-> sh, length |-> [c \in 1..k |-> None], label |-> lb] :
             lb \in Labellings(k, sh)}
        : sh \in Shapes(k)} : k \in 1..MaxNodes}

\* Largest number of clades of a tree drawn with extra keyword arguments.
MaxKwNodes == 2

\* Largest number of clades of the trees of every shape, with the leaves
\* named and each branch length absent or 1.
MaxDrawNodes == 5

ShapeFiles ==
    UNION {UNION {
        {[n |-> k, parent |-> sh, length |-> ln, label |-> TaxonLabels(k, sh)] :
             ln \in [1..k -> {None, Some(1)}]}
        : sh \in Shapes(k)} : k \in 1..MaxDrawNodes}

\* Largest number of extra keyword arguments of one drawMark call.
MaxKwargs == 1

\* The names of the extra keyword arguments; pyplot has a function "title"
\* and none called "bogus".
KwKeys == {"title", "bogus"}
PyplotFunctions == {"title"}

\* The values of the extra keyword arguments, by Python type and by the
\* types of their items: 5, {..}, (), ("T",), ((1,),), ((1,), {..}),
\* ((1,), 5), ["T"], {"T"} and "T".
KwValues ==
    {[type |-> "int",   items |-> <<>>],
     [type |-> "dict",  items |-> <<>>],
     [type |-> "tuple", items |-> <<>>],
     [type |-> "tuple", items |-> <<"scalar">>],
     [type |-> "tuple", items |-> <<"tuple">>],
     [type |-> "tuple", items |-> <<"tuple", "dict">>],
     [type |-> "tuple", items |-> <<"tuple", "scalar">>],
     [type |-> "list",  items |-> <<"scalar">>],
     [type |-> "set",   items |-> <<"scalar">>],
     [type |-> "str",   items |-> <<"scalar">>]}

-----------------------------------------------------------------------------
VARIABLES
    script,      \* "rect" (trees.py) or "polar" (circTrees.py)
    installed,   \* the modules that can be imported
    nwk,         \* the Newick file drawTree reads
    pc,          \* where the script is
    error,       \* the exception that ended the run, if any
    treeDepth,   \* module-level name treeDepth of circTrees.py
    heights,     \* module-level name heights of circTrees.py
    caller,      \* "drawTree" or "direct": who called drawMark
    asked,       \* drawTree's own parameter mark
    tree,        \* drawMark's tree
    label_func,  \* drawMark's label_func: "name" (lambda n: n.name) or "str"
    mark,        \* drawMark's mark
    do_show,     \* drawMark's do_show
    x_posns,     \* drawMark's local x_posns
    y_posns,     \* drawMark's local y_posns
    todo,        \* the calls of draw_clade not yet made, the next one first
    hlines,      \* the horizontal segments drawn, in order
    vlines,      \* the vertical segments drawn, in order
    texts,       \* the texts drawn, in order
    limits,      \* the axes' limits
    kwseen,      \* how many extra keyword arguments the loop has taken
    kwarg,       \* the loop's key and value, None before the first turn
    plt_calls    \* the pyplot functions called for extra keyword arguments

globals == <<treeDepth, heights>>
params  == <<caller, asked, tree, label_func, mark, do_show>>
locals  == <<x_posns, y_posns, todo, hlines, vlines, texts, limits, kwseen,
             kwarg, plt_calls>>
vars    == <<script, installed, nwk, pc, error, globals, params, locals>>

NoError == [type |-> "none", names |-> {}, message |-> ""]

\* An exception: its type, the keyword arguments its message names, and
\* its message where the script fixes it.
Raise(type, names, message) ==
    [type |-> type, names |-> names, message |-> message]

NoTree == [n |-> 0]

\* The start of a script that will read one of the given files.
InitOn(files) ==
    /\ script \in {"rect", "polar"}
    /\ installed \in Installations
    /\ nwk \in files
    /\ pc = "load"
    /\ error = NoError
    /\ treeDepth = {}
    /\ heights = {}
    /\ caller = "none"
    /\ asked = {}
    /\ tree = NoTree
    /\ label_func = "none"
    /\ mark = {}
    /\ do_show = FALSE
    /\ x_posns = <<>>
    /\ y_posns = <<>>
    /\ todo = <<>>
    /\ hlines = <<>>
    /\ vlines = <<>>
    /\ texts = <<>>
    /\ limits = <<>>
    /\ kwseen = 0
    /\ kwarg = None
    /\ plt_calls = {}

Init == InitOn(InputFiles)

-----------------------------------------------------------------------------
(* Loading the script: the imports at the top of the file.                 *)

ModuleImports(scr) ==
    {"Bio", "matplotlib", "pylab"} \cup (IF scr = "polar" THEN {"numpy"} ELSE {})

LoadModule ==
    /\ pc = "load"
    /\ IF ModuleImports(script) \subseteq installed
       THEN pc' = "idle" /\ error' = error
       ELSE pc' = "raised" /\ error' = Raise("ImportError", {}, "")
    /\ UNCHANGED <<script, installed, nwk, globals, params, locals>>

(* drawTree(treeName, outX, ..., ladderize, ..., mark) up to its call of   *)
(* drawMark.                                                               *)

\* mark as drawTree hands it to drawMark.
MarkPassed(scr, m) == IF scr = "rect" THEN m ELSE {}

CallDrawTree(m, lad) ==
    LET read == PhyloRead(nwk)
        t    == IF lad THEN ladderize(read) ELSE read
        a    == find_by_name(t, toMark[1])
        b    == find_by_name(t, toMark[2])
    IN  /\ pc = "idle"
        /\ IF script = "polar" /\ (a = None \/ b = None)
           THEN /\ pc' = "raised"
                /\ error' = Raise("ValueError", {}, "")
                /\ UNCHANGED params
           ELSE /\ pc' = "drawMark"
                /\ error' = error
                /\ caller' = "drawTree"
                /\ asked' = m
                /\ tree' = IF script = "polar"
                           THEN [t EXCEPT !.color[common_ancestor(t, a[1], b[1])]
                                              = Some("r")]
                           ELSE t
                /\ label_func' = "name"
                /\ mark' = MarkPassed(script, m)
                /\ do_show' = FALSE
        /\ UNCHANGED <<script, installed, nwk, globals, locals>>

(* drawMark(tree, mark=m, **kwargs) called on a tree as read.              *)
CallDrawMark(m) ==
    /\ pc = "idle"
    /\ pc' = "drawMark"
    /\ caller' = "direct"
    /\ asked' = {}
    /\ tree' = PhyloRead(nwk)
    /\ label_func' = "str"
    /\ mark' = m
    /\ do_show' = TRUE
    /\ UNCHANGED <<script, installed, nwk, error, globals, locals>>

(* drawMark: the imports at its top.  MissingPythonDependencyError is a    *)
(* name the scripts never import, so raising it is a NameError.            *)
MissingDependencyMessage == "Install matplotlib or pylab if you want to use draw."

PlotImport(inst) ==
    IF "matplotlib.pyplot" \in inst \/ "pylab" \in inst
    THEN NoError
    ELSE Raise("NameError", {}, "")

DrawMarkImports ==
    /\ pc = "drawMark"
    /\ error' = PlotImport(installed)
    /\ pc' = IF error' = NoError THEN "layout" ELSE "raised"
    /\ UNCHANGED <<script, installed, nwk, globals, params, locals>>

(* drawMark: x_posns, y_posns, the axes and the first call of draw_clade.  *)
Layout ==
    /\ pc = "layout"
    /\ x_posns' = get_x_positions(tree, script, TRUE)
    /\ y_posns' = get_y_positions(tree, script)
    /\ IF script = "polar"
       THEN treeDepth' = {TreeDepth(tree)} /\ heights' = {y_posns'}
       ELSE UNCHANGED <<treeDepth, heights>>
    /\ todo' = <<[clade |-> root, x_start |-> 0, color |-> "k"]>>
    /\ pc' = "draw"
    /\ UNCHANGED <<script, installed, nwk, error, params, hlines, vlines,
                   texts, limits, kwseen, kwarg, plt_calls>>

(* drawMark.draw_clade(clade, x_start, color, lw): one call.               *)

\* label_func(clade): lambda n: n.name, or str, which gives the name of a
\* named clade and the class name of an unnamed one.
Label(t, c, lf) ==
    IF lf = "name" THEN t.name[c]
    ELSE IF t.name[c] # None THEN t.name[c] ELSE Some("Clade")

\* Whether draw_clade writes the taxon label: the polar script has the
\* labelling commented out.
DrawsLabel(scr, label) == scr = "rect" /\ label \notin {None, Some("Clade")}

\* The colour and weight of a taxon label: markColor and markWeight for a
\* label in mark, get_label_color(label) otherwise.
LabelStyle(label, m) ==
    IF label[1] \in m THEN [color |-> "r", weight |-> "bold"]
    ELSE [color |-> "black", weight |-> "normal"]

\* conf2str(conf) of a whole number.
conf2str(conf) == ToString(conf)

\* format_branch_label(clade) with show_confidence: conf2str of the clade's
\* confidence, None without one.
format_branch_label(t, c) ==
    IF t.confidence[c] # None THEN Some(conf2str(t.confidence[c][1])) ELSE None

\* clade.color.to_hex() of the colour name 'r'.
ToHex(color) == IF color = "r" THEN "#ff0000" ELSE color

\* y_here == np.pi / 2 in the polar draw_clade_lines: a quarter of the
\* full turn, the unit being 1/count of the turn.
QuarterTurn(scr, t, y) == scr = "polar" /\ 4 * y = count_terminals(t) * YDen

\* The segment from (x_start, y_here) to (x_here, y_here); the polar script
\* draws it moved by (0.012, 0.00018) at a quarter turn.
HorizontalLine(scr, t, c, y_here, x_start, x_here, color) ==
    [clade |-> c, y |-> y_here, x0 |-> x_start, x1 |-> x_here, color |-> color,
     moved |-> QuarterTurn(scr, t, y_here)]

\* The segment from (x_here, y_bot) to (x_here, y_top).
VerticalLine(c, x_here, y_bot, y_top, color) ==
    [clade |-> c, x |-> x_here, y_bot |-> y_bot, y_top |-> y_top, color |-> color]

\* The children started at 0, as the root is.
ChildCallsFromZero(t, c, x_here, color) ==
    [i \in 1..Len(t.clades[c]) |->
        [clade |-> t.clades[c][i], x_start |-> 0, color |-> color]]

\* The calls draw_clade(child, x_here, color, lw), in the order of the loop.
ChildCalls(t, c, x_here, color) ==
    [i \in 1..Len(t.clades[c]) |->
        [clade |-> t.clades[c][i], x_start |-> x_here, color |-> color]]

DrawClade ==
    /\ pc = "draw"
    /\ todo # <<>>
    /\ LET call  == Head(todo)
           clade == call.clade
       IN  IF clade \notin DOMAIN x_posns \/ clade \notin DOMAIN y_posns
           THEN /\ pc' = "raised"
                /\ error' = Raise("KeyError", {}, "")
                /\ UNCHANGED <<todo, hlines, vlines, texts>>
           ELSE LET x_here == x_posns[clade]
                    y_here == y_posns[clade]
                    color  == IF tree.color[clade] # None
                              THEN ToHex(tree.color[clade][1]) ELSE call.color
                    label  == Label(tree, clade, label_func)
                    conf   == format_branch_label(tree, clade)
                    kids   == tree.clades[clade]
                IN  /\ hlines' = Append(hlines,
                           HorizontalLine(script, tree, clade, y_here,
                                          call.x_start, x_here, color))
                    /\ texts' = texts
                         \o (IF DrawsLabel(script, label)
                             THEN <<[kind |-> "taxon", clade |-> clade,
                                     x2 |-> 2 * x_here, y |-> y_here,
                                     s |-> label[1],
                                     style |-> LabelStyle(label, mark)]>>
                             ELSE <<>>)
                         \o (IF conf # None
                             THEN <<[kind |-> "branch", clade |-> clade,
                                     x2 |-> call.x_start + x_here, y |-> y_here,
                                     s |-> conf[1],
                                     style |-> [color |-> "black",
                                                weight |-> "normal"]]>>
                             ELSE <<>>)
                    /\ vlines' = IF kids # <<>>
                                 THEN Append(vlines,
                                        VerticalLine(clade, x_here,
                                                     y_posns[kids[Len(kids)]],
                                                     y_posns[kids[1]], color))
                                 ELSE vlines
                    /\ todo' = ChildCalls(tree, clade, x_here, color) \o Tail(todo)
                    /\ pc' = pc
                    /\ error' = error
    /\ UNCHANGED <<script, installed, nwk, globals, params, x_posns, y_posns,
                   limits, kwseen, kwarg, plt_calls>>

(* drawMark after the last draw_clade: the line collections are added and  *)
(* the axes are set (xlim and ylim in the rectangular script, rmax from    *)
(* the module-level treeDepth in the polar one).                           *)

\* (-0.05 * xmax, 1.25 * xmax), in hundredths.
XLim(x) == LET xmax == Max({x[c] : c \in DOMAIN x})
           IN  <<-5 * xmax, 125 * xmax>>

\* (max(y) + 0.8, 0.2), in tenths of a YDen-th.
YLim(y) == LET ymax == Max({y[c] : c \in DOMAIN y})
           IN  <<10 * ymax + 8 * YDen, 2 * YDen>>

SetAxes ==
    /\ pc = "draw"
    /\ todo = <<>>
    /\ IF script = "rect"
       THEN /\ limits' = [xlim |-> XLim(x_posns), ylim |-> YLim(y_posns)]
            /\ pc' = "kwargs"
            /\ error' = error
       ELSE IF treeDepth = {}
            THEN /\ pc' = "raised"
                 /\ error' = Raise("NameError", {}, "")
                 /\ limits' = limits
            ELSE /\ limits' = [rmax |-> (CHOOSE d \in treeDepth : TRUE) + 1]
                 /\ pc' = "kwargs"
                 /\ error' = error
    /\ UNCHANGED <<script, installed, nwk, globals, params, x_posns, y_posns,
                   todo, hlines, vlines, texts, kwseen, kwarg, plt_calls>>

(* drawMark: one turn of the loop over kwargs.items().                     *)

\* [i for i in value]: a TypeError for a value that is not iterable.
Iterable(value) == value.type # "int"

\* What one turn of the loop does with key=value: the exception it raises,
\* if any, and whether getattr(plt, key) is called.
KwargOutcome(key, value) ==
    LET attr   == IF key \in PyplotFunctions
                  THEN [error |-> NoError, called |-> TRUE]
                  ELSE [error |-> Raise("AttributeError", {}, ""), called |-> FALSE]
        raises(type) == [error |-> Raise(type, {}, ""), called |-> FALSE]
    IN  IF ~Iterable(value)
        THEN [error |-> Raise("ValueError", {key}, ""), called |-> FALSE]
        ELSE IF value.type = "dict" THEN attr
        ELSE IF value.type = "set" THEN raises("TypeError")
        ELSE IF Len(value.items) = 0 THEN raises("IndexError")
        ELSE IF value.items[1] # "tuple" THEN attr
        ELSE IF key \notin PyplotFunctions THEN attr
        ELSE IF Len(value.items) < 2 THEN raises("IndexError")
        ELSE IF value.items[2] # "dict" THEN raises("TypeError")
        ELSE attr

ProcessKwarg(key, value) ==
    /\ pc = "kwargs"
    /\ caller = "direct"
    /\ kwseen < MaxKwargs
    /\ kwseen' = kwseen + 1
    /\ kwarg' = Some([key |-> key, value |-> value])
    /\ LET out == KwargOutcome(key, value)
       IN  /\ error' = out.error
           /\ pc' = IF out.error = NoError THEN pc ELSE "raised"
           /\ plt_calls' = IF out.called THEN plt_calls \cup {key} ELSE plt_calls
    /\ UNCHANGED <<script, installed, nwk, globals, params, x_posns, y_posns,
                   todo, hlines, vlines, texts, limits>>

(* drawMark: the end of the loop, plt.show() if do_show, and the return.   *)
EndDrawMark ==
    /\ pc = "kwargs"
    /\ pc' = "rendered"
    /\ UNCHANGED <<script, installed, nwk, error, globals, params, locals>>

(* After drawMark: drawTree turns the axis off and saves the figure to a   *)
(* file, which is no part of the state; the call's arguments and locals go *)
(* out of scope.                                                           *)
Return ==
    /\ pc = "rendered"
    /\ pc' = "idle"
    /\ caller' = "none"
    /\ asked' = {}
    /\ tree' = NoTree
    /\ label_func' = "none"
    /\ mark' = {}
    /\ do_show' = FALSE
    /\ x_posns' = <<>>
    /\ y_posns' = <<>>
    /\ todo' = <<>>
    /\ hlines' = <<>>
    /\ vlines' = <<>>
    /\ texts' = <<>>
    /\ limits' = <<>>
    /\ kwseen' = 0
    /\ kwarg' = None
    /\ plt_calls' = {}
    /\ UNCHANGED <<script, installed, nwk, error, treeDepth, heights>>

\* The renders without extra keyword arguments.
Next ==
    \/ LoadModule
    \/ \E m \in Marks, lad \in BOOLEAN : CallDrawTree(m, lad)
    \/ \E m \in Marks : CallDrawMark(m)
    \/ DrawMarkImports
    \/ Layout
    \/ DrawClade
    \/ SetAxes
    \/ EndDrawMark
    \/ Return

Spec == Init /\ [][Next]_vars

\* The renders with extra keyword arguments, on the files of at most
\* MaxKwNodes clades.
InitKwargs == Init /\ nwk.n <= MaxKwNodes

NextKwargs ==
    \/ LoadModule
    \/ \E m \in Marks, lad \in BOOLEAN : CallDrawTree(m, lad)
    \/ \E m \in Marks : CallDrawMark(m)
    \/ DrawMarkImports
    \/ Layout
    \/ DrawClade
    \/ SetAxes
    \/ \E key \in KwKeys, value \in KwValues : ProcessKwarg(key, value)
    \/ EndDrawMark
    \/ Return

SpecKwargs == InitKwargs /\ [][NextKwargs]_vars

\* The renders without extra keyword arguments on the trees of every shape
\* of at most MaxDrawNodes clades.
InitShapes == InitOn(ShapeFiles)

SpecShapes == InitShapes /\ [][Next]_vars


-----------------------------------------------------------------------------
(* The properties checked.                                                 *)

\* x_posns and y_posns hold what get_x_positions and get_y_positions
\* returned.
Placed == pc \in {"draw", "kwargs", "rendered"}

Clades(t) == 1..t.n

Internal(t) == {c \in Clades(t) : ~is_terminal(t, c)}

\* C1: the leaves, in the order of tree.get_terminals(), have strictly
\* increasing (or strictly decreasing) vertical positions, in both scripts.
C1_LeavesStrictlyOrdered ==
    Placed =>
        LET tips == get_terminals(tree)
            pairs == {p \in (1..Len(tips)) \X (1..Len(tips)) : p[1] < p[2]}
        IN  \/ \A p \in pairs : y_posns[tips[p[1]]] < y_posns[tips[p[2]]]
            \/ \A p \in pairs : y_posns[tips[p[1]]] > y_posns[tips[p[2]]]

C1_Witness ==
    /\ Placed
    /\ script = "polar"
    /\ count_terminals(tree) >= 3

\* C2: every internal clade, the root included, is at the midpoint of its
\* first and its last child, as the returned mapping has them.
C2_InternalAtMidpoint ==
    Placed =>
        \A c \in Internal(tree) :
            LET kids == tree.clades[c]
            IN  2 * y_posns[c] = y_posns[kids[1]] + y_posns[kids[Len(kids)]]

C2_Witness ==
    /\ Placed
    /\ \E c \in Internal(tree) :
           /\ c # root
           /\ Len(tree.clades[c]) >= 2
           /\ y_posns[c] # y_posns[tree.clades[c][1]]

C10_EveryCladePlaced ==
    /\ Placed => /\ DOMAIN x_posns = Clades(tree)
                 /\ DOMAIN y_posns = Clades(tree)
    /\ error.type # "KeyError"

C10_Witness ==
    /\ pc = "rendered"
    /\ tree.n = MaxNodes
    /\ \E c \in Internal(tree) : c # root
    /\ Len(hlines) = MaxNodes

\* A clade and one of its children.
Edges(t) == {e \in Clades(t) \X Clades(t) : e[2] \in Range(t.clades[e[1]])}

\* get_x_positions takes the cumulative branch lengths: the rectangular
\* script on a tree whose largest depth is not 0.
UsesBranchLengths == script = "rect" /\ ~NoBranchLengths(tree)

\* C3 as stated: with cumulative branch lengths no child is left of its
\* parent.
C3_ChildNotLeftOfParent ==
    (Placed /\ UsesBranchLengths) =>
        \A e \in Edges(tree) : x_posns[e[2]] >= x_posns[e[1]]

\* C3 as amended: with cumulative branch lengths a child is at its parent's
\* position plus its own branch length (0 without one), so no child whose
\* branch length is absent or not negative is left of its parent.
C3_ChildAtParentPlusLength ==
    (Placed /\ UsesBranchLengths) =>
        \A e \in Edges(tree) :
            /\ x_posns[e[2]] = x_posns[e[1]] + OrZero(tree.branch_length[e[2]])
            /\ OrZero(tree.branch_length[e[2]]) >= 0
                   => x_posns[e[2]] >= x_posns[e[1]]

C3_Witness ==
    /\ Placed
    /\ UsesBranchLengths
    /\ \E e \in Edges(tree) : tree.branch_length[e[2]] = Some(-1)
    /\ \E e \in Edges(tree) : tree.branch_length[e[2]] = Some(1)

\* get_x_positions takes unit branch lengths: the polar script always, the
\* rectangular one on a tree whose largest depth is 0.
UsesUnitLengths == script = "polar" \/ NoBranchLengths(tree)

\* C4 as stated: with unit branch lengths (the rectangular script on a
\* tree with no branch lengths, the polar script on any tree) every clade
\* is at its number of edges from the root.
C4_AtDepthFromRoot ==
    (/\ Placed
     /\ \/ script = "polar"
        \/ \A c \in Clades(tree) : tree.branch_length[c] = None) =>
        \A c \in Clades(tree) : x_posns[c] = get_path_len(tree, c)

\* C4 as amended: with unit branch lengths every clade of the rectangular
\* script and every internal clade of the polar script is at the root's
\* branch length (0 without one) plus its number of edges from the root;
\* every leaf of the polar script is at the largest number of edges from
\* the root to a leaf.
C4_AtDepthOrAligned ==
    (Placed /\ UsesUnitLengths) =>
        LET offset == OrZero(tree.branch_length[root])
            leaves == Clades(tree) \ Internal(tree)
        IN  /\ \A c \in Clades(tree) :
                   (script = "rect" \/ c \in Internal(tree))
                       => x_posns[c] = offset + get_path_len(tree, c)
            /\ script = "polar" =>
                   /\ \A c \in leaves : x_posns[c] >= get_path_len(tree, c)
                   /\ \E c \in leaves : x_posns[c] = get_path_len(tree, c)
                   /\ \A c, d \in leaves : x_posns[c] = x_posns[d]

C4_Witness ==
    /\ Placed
    /\ script = "polar"
    /\ tree.branch_length[root] = Some(1)
    /\ \E c, d \in Clades(tree) \ Internal(tree) :
           get_path_len(tree, c) < get_path_len(tree, d)

\* C5: in a render started through drawTree with mark = M, every named leaf
\* has its label drawn, in the highlight colour and weight if the name is
\* in M and in the default colour otherwise, in both scripts.
C5_MarkedLeavesHighlighted ==
    (pc = "rendered" /\ caller = "drawTree") =>
        \A c \in Clades(tree) \ Internal(tree) :
            tree.name[c] # None =>
                \E i \in 1..Len(texts) :
                    /\ texts[i].kind = "taxon"
                    /\ texts[i].clade = c
                    /\ texts[i].style =
                           IF tree.name[c][1] \in asked
                           THEN [color |-> "r", weight |-> "bold"]
                           ELSE [color |-> "black", weight |-> "normal"]

\* The formats drawMark's message accepts: (dict), (tuple) and
\* (tuple, dict).
AcceptedFormat(value) ==
    \/ value.type = "dict"
    \/ value.type = "tuple" /\ value.items \in {<<"scalar">>, <<"tuple", "dict">>}

\* C7: an extra keyword argument whose value is in none of the accepted
\* formats ends drawMark in a ValueError that names its key, and no pyplot
\* function is called for it.
C7_MalformedKwargIsValueError ==
    (kwarg # None /\ ~AcceptedFormat(kwarg[1].value)) =>
        /\ pc = "raised"
        /\ error.type = "ValueError"
        /\ kwarg[1].key \in error.names
        /\ kwarg[1].key \notin plt_calls

\* C8: where neither matplotlib.pyplot nor pylab can be imported, the run
\* ends in MissingPythonDependencyError with the fixed message.
C8_MissingDependencyError ==
    (/\ "matplotlib.pyplot" \notin installed
     /\ "pylab" \notin installed
     /\ pc = "raised") =>
        /\ error.type = "MissingPythonDependencyError"
        /\ error.message = MissingDependencyMessage

\* C9: between renders no module-level name holds a mapping or a value a
\* render computed.
C9_NoModuleLevelResult ==
    pc = "idle" => (treeDepth = {} /\ heights = {})

\* The taxon labels drawn for clade c.
TaxonTexts(c) ==
    {i \in 1..Len(texts) : texts[i].kind = "taxon" /\ texts[i].clade = c}

\* C11: a finished render has drawn exactly one taxon label for every named
\* leaf, at that leaf's (x, y), and none for a clade that is not a leaf.
C11_OneLabelPerLeaf ==
    pc = "rendered" =>
        \A c \in Clades(tree) :
            IF is_terminal(tree, c) /\ tree.name[c] # None
            THEN /\ Cardinality(TaxonTexts(c)) = 1
                 /\ \A i \in TaxonTexts(c) :
                        /\ texts[i].x2 = 2 * x_posns[c]
                        /\ texts[i].y = y_posns[c]
                        /\ texts[i].s = tree.name[c][1]
            ELSE is_terminal(tree, c) \/ TaxonTexts(c) = {}

\* Where the horizontal segment of clade c starts: its parent's x, 0 for
\* the root.
StartOf(c) == IF c = root THEN 0 ELSE x_posns[ParentOf(tree, c)]

HLinesOf(c) == {i \in 1..Len(hlines) : hlines[i].clade = c}

VLinesOf(c) == {i \in 1..Len(vlines) : vlines[i].clade = c}

\* What holds of the segments in both scripts: while draw_clade runs no
\* clade is visited twice or still to visit once visited (so the recursion
\* ends within one call per clade) and no call is stuck; once it has ended
\* there is one horizontal segment per clade, from its parent's x to its own
\* x at its own y, and one vertical segment per internal clade, at its x
\* from the y of its last child to the y of its first, and no other.
SegmentsDrawn ==
    /\ pc = "draw" =>
          /\ \A c \in Clades(tree) : Cardinality(HLinesOf(c)) <= 1
          /\ \A i \in 1..Len(todo) : HLinesOf(todo[i].clade) = {}
          /\ ENABLED Next
    /\ pc \in {"kwargs", "rendered"} =>
          /\ Len(hlines) = tree.n
          /\ Len(vlines) = Cardinality(Internal(tree))
          /\ \A c \in Clades(tree) :
                 /\ Cardinality(HLinesOf(c)) = 1
                 /\ \A i \in HLinesOf(c) :
                        /\ hlines[i].x0 = StartOf(c)
                        /\ hlines[i].x1 = x_posns[c]
                        /\ hlines[i].y = y_posns[c]
          /\ \A c \in Internal(tree) :
                 /\ Cardinality(VLinesOf(c)) = 1
                 /\ \A i \in VLinesOf(c) :
                        LET kids == tree.clades[c]
                        IN  /\ vlines[i].x = x_posns[c]
                            /\ vlines[i].y_bot = y_posns[kids[Len(kids)]]
                            /\ vlines[i].y_top = y_posns[kids[1]]

\* C12 as stated: draw_clade ends after one visit per clade, and every
\* horizontal segment is drawn where the clade is, from its parent's x to
\* its own x at its own y.
C12_SegmentsAtPositions ==
    /\ SegmentsDrawn
    /\ \A i \in 1..Len(hlines) : ~hlines[i].moved

\* C12 as amended: as stated, but the polar script draws the horizontal
\* segment of a clade whose y is a quarter turn (pi/2) moved by 0.012 in x
\* and 0.00018 in y, and only that one.
C12_SegmentsMovedAtQuarterTurn ==
    /\ SegmentsDrawn
    /\ \A i \in 1..Len(hlines) :
           hlines[i].moved <=>
               /\ script = "polar"
               /\ 4 * hlines[i].y = count_terminals(tree) * YDen

C12_Witness ==
    /\ pc = "rendered"
    /\ script = "polar"
    /\ tree.n = MaxDrawNodes
    /\ \E i \in 1..Len(hlines) : hlines[i].moved
    /\ Len(vlines) = 1

=============================================================================
